---- MODULE Spec2Model ----
(***************************************************************************)
(* ImageDataAnnotator: the batch pipeline of the main window (spreadsheet  *)
(* rows -> tasks by filename stem), the ProcessingWorker (thread pool,     *)
(* pause / cancel events, counters, signals) and the panel layout          *)
(* arithmetic of ImageProcessor.process_image.                             *)
(*                                                                         *)
(* Strings are sequences of one-character strings.  An Optional value is   *)
(* a sequence of length 0 (None) or 1.                                     *)
(***************************************************************************)
EXTENDS Integers, Sequences, FiniteSets, TLC

\* ------------------------------------------------------------------ bounds
MaxTasks == 3          \* longest task list given to a worker
MaxCpu == 3            \* largest os.cpu_count() tried with a running worker
MaxCores == 20         \* largest os.cpu_count() tried with the pool size alone
MaxSession == 2        \* most files of a checkpoint session
MaxMarks == 2          \* most mark_processed / mark_failed calls of a session

\* ------------------------------------------------------- program constants
MinThreads == 2        \* max(2, ...) in ProcessingWorker.__init__
MaxThreads == 16       \* min(..., 16) in ProcessingWorker.__init__
StatsEvery == 10       \* _handle_result: statistics every 10 results

None == <<>>
Some(x) == <<x>>

Max(a, b) == IF a >= b THEN a ELSE b
Min(a, b) == IF a <= b THEN a ELSE b

\* ------------------------------------------------------------ ExcelReader
IsSpace(c) == c = " "

RECURSIVE LStrip(_)
LStrip(s) == IF s # <<>> /\ IsSpace(Head(s)) THEN LStrip(Tail(s)) ELSE s

RECURSIVE RStrip(_)
RStrip(s) ==
    IF s # <<>> /\ IsSpace(s[Len(s)]) THEN RStrip(SubSeq(s, 1, Len(s) - 1)) ELSE s

\* str.strip()
Strip(s) == RStrip(LStrip(s))

\* str.replace(".", "-")
ReplaceDots(s) == [k \in 1..Len(s) |-> IF s[k] = "." THEN "-" ELSE s[k]]

\* ExcelReader._normalize_position
NormalizePosition(position) == ReplaceDots(Strip(position))

\* index of the last "." of a file name, 0 when there is none
LastDot(name) ==
    LET dots == {k \in 1..Len(name) : name[k] = "."}
    IN  IF dots = {} THEN 0 ELSE CHOOSE k \in dots : \A m \in dots : m <= k

\* pathlib: Path(filename).stem, the name without its last suffix (a leading
\* dot does not start a suffix)
Stem(name) ==
    IF LastDot(name) <= 1 THEN name ELSE SubSeq(name, 1, LastDot(name) - 1)

\* str(cell_value) if cell_value is not None else ""
CellText(cell) == IF cell = None THEN <<>> ELSE cell[1]

\* the row_data dictionary parse() builds for one row: one entry per mapped
\* column other than "position"
RowData(row) ==
    [supplier |-> CellText(row.supplier), kpp |-> CellText(row.kpp),
     inn |-> CellText(row.inn), hyperlink |-> CellText(row.hyperlink)]

\* parse() stops at the first row whose position cell is None or blank
RowEnds(row) == row.position = None \/ Strip(row.position[1]) = <<>>

\* number of rows parse() reads before it stops
RECURSIVE ParsedLen(_)
ParsedLen(rows) ==
    IF rows = <<>> \/ RowEnds(Head(rows)) THEN 0 ELSE 1 + ParsedLen(Tail(rows))

\* ExcelReader.parse: self.data[position_key] = row_data, row after row, so
\* a later row overwrites an earlier one with the same key
RECURSIVE ParseInto(_, _)
ParseInto(data, rows) ==
    IF rows = <<>> \/ RowEnds(Head(rows)) THEN data
    ELSE LET key == NormalizePosition(Head(rows).position[1])
             keys == DOMAIN data \cup {key}
         IN  ParseInto([k \in keys |-> IF k = key THEN RowData(Head(rows)) ELSE data[k]],
                       Tail(rows))

Parse(rows) == ParseInto([k \in {} |-> None], rows)

\* a lookup by the file name instead of its stem
GetDataForFileByName(data, filename) ==
    IF filename \in DOMAIN data THEN Some(data[filename]) ELSE None

\* ExcelReader.get_data_for_file: self.data.get(Path(filename).stem)
GetDataForFile(data, filename) ==
    IF Stem(filename) \in DOMAIN data THEN Some(data[Stem(filename)]) ELSE None

\* Python truth value of an Optional[Dict]: None and the empty dict are false
Falsy(opt) == opt = None \/ DOMAIN opt[1] = {}

\* ------------------------------------------------------- ProcessingWorker
\* the automatic pool size without the lower limit
ThreadCountNoFloor(configured, cpu) ==
    IF configured <= 0 THEN Min(cpu - 1, MaxThreads) ELSE configured

\* ProcessingWorker.__init__: the pool size
ThreadCount(configured, cpu) ==
    IF configured <= 0 THEN Max(MinThreads, Min(cpu - 1, MaxThreads)) ELSE configured

\* _emit_statistics: percent of a periodic statistics dictionary
Percent(processed, total) == IF total > 0 THEN (processed * 100) \div total ELSE 0

\* _emit_final_statistics: percent of the final statistics dictionary; the
\* division raises when total = 0 is not the processed count, which cannot
\* happen (0 <= processed <= total)
FinalPercent(processed, total) ==
    IF processed = total THEN 100 ELSE (processed * 100) \div total


\* ------------------------------------------- ImageProcessor.process_image
\* A text is the sequence of its paragraphs (text.split('\n')), a paragraph
\* the sequence of the pixel widths of its words (paragraph.split()); "" is
\* the text without paragraphs.  font.getbbox of words joined by spaces is
\* the sum of the word widths and of SpaceWidth per gap.
SpaceWidth == 4
LabelWidth == 70       \* width of the word "Поставщик:"
LinkLabelWidth == 50   \* width of the word "Ссылка:"

RECURSIVE SumSeq(_)
SumSeq(q) == IF q = <<>> THEN 0 ELSE Head(q) + SumSeq(Tail(q))

LineWidth(words) == SumSeq(words) + (Len(words) - 1) * SpaceWidth

\* _wrap_text, the loop over the words of one paragraph: lines closed so
\* far, the current line, the words left
RECURSIVE WrapWords(_, _, _, _)
WrapWords(lines, current_line, words, max_width) ==
    IF words = <<>> THEN Append(lines, current_line)
    ELSE LET test_line == Append(current_line, Head(words))
         IN  IF LineWidth(test_line) <= max_width
             THEN WrapWords(lines, test_line, Tail(words), max_width)
             ELSE WrapWords(Append(lines, current_line), <<Head(words)>>, Tail(words),
                            max_width)

\* _wrap_text
RECURSIVE WrapText(_, _)
WrapText(text, max_width) ==
    IF text = <<>> THEN <<>>
    ELSE (IF Head(text) = <<>> THEN << <<>> >>
          ELSE WrapWords(<<>>, <<Head(Head(text))>>, Tail(Head(text)), max_width))
         \o WrapText(Tail(text), max_width)

\* f"Поставщик:\n{excel_data['supplier']}"
SupplierText(supplier) == << <<LabelWidth>> >> \o supplier

\* f"Ссылка: {excel_data['hyperlink']}"
HyperlinkText(link) == << <<LinkLabelWidth>> \o Head(link) >> \o Tail(link)

\* int(x) of a quotient n / d, d > 0: truncation toward zero (the rounding
\* of the floating-point quotient is not modelled)
TruncDiv(n, d) == IF n >= 0 THEN n \div d ELSE -((-n) \div d)

LineHeightOf(c) == c.font_size + 8

ShowInn(c) == c.fields.inn /\ c.excel_data.inn # <<>>
ShowKpp(c) == c.fields.kpp /\ c.excel_data.kpp # <<>>
ShowSupplier(c) == c.fields.supplier /\ c.excel_data.supplier # <<>>
ShowHyperlink(c) == c.fields.hyperlink /\ c.excel_data.hyperlink # <<>>
\* self.stamp_image and self.settings.get("stamp_enabled", True)
ShowStamp(c) == c.stamp # None /\ c.stamp_enabled

\* int(self.stamp_image.width * stamp_scale), int(... height * stamp_scale)
ScaledStampWidth(c) == TruncDiv(c.stamp[1].width * c.stamp_scale.num, c.stamp_scale.den)
ScaledStampHeight(c) == TruncDiv(c.stamp[1].height * c.stamp_scale.num, c.stamp_scale.den)

\* the stamp height after `if stamp_width > avail: ratio = avail / stamp_width;
\* stamp_height = int(stamp_height * ratio)`
FittedStampHeight(c, avail) ==
    IF ScaledStampWidth(c) > avail
    THEN TruncDiv(ScaledStampHeight(c) * avail, ScaledStampWidth(c))
    ELSE ScaledStampHeight(c)

\* the stamp width the drawing pass resizes to
FittedStampWidth(c, avail) ==
    IF ScaledStampWidth(c) > avail THEN avail ELSE ScaledStampWidth(c)

\* the wrapped line counts of the text elements at one wrap width, in the
\* order supplier, hyperlink, fixed texts (0 for an element not shown)
LineCounts(c, wrap_width) ==
    << IF ShowSupplier(c) THEN Len(WrapText(SupplierText(c.excel_data.supplier), wrap_width))
       ELSE 0,
       IF ShowHyperlink(c) THEN Len(WrapText(HyperlinkText(c.excel_data.hyperlink), wrap_width))
       ELSE 0 >>
    \o [k \in 1..Len(c.fixed_texts) |->
           IF c.fixed_texts[k] # <<>> THEN Len(WrapText(c.fixed_texts[k], wrap_width)) ELSE 0]

\* the sizing pass of either branch up to the stamp: 20 + lines + 25 +
\* fixed-text lines + (stamp_height + 40)
ContentHeight(c, avail) ==
    20
    + (IF ShowInn(c) THEN LineHeightOf(c) ELSE 0)
    + (IF ShowKpp(c) THEN LineHeightOf(c) ELSE 0)
    + SumSeq(LineCounts(c, avail)) * LineHeightOf(c)
    + 25
    + (IF ShowStamp(c) THEN FittedStampHeight(c, avail) + 40 ELSE 0)

\* position == "left": required_height
RequiredHeight(c) == ContentHeight(c, c.panel_width - 20)

\* position "bottom": panel_height, with the final `panel_height += 20`
PanelHeight(c) == ContentHeight(c, c.width - 20) + 20

IsLeft(c) == c.position = "left"

NewWidth(c) == IF IsLeft(c) THEN c.width + c.panel_width ELSE c.width
NewHeight(c) ==
    IF IsLeft(c) THEN Max(c.height, RequiredHeight(c) + 20) ELSE c.height + PanelHeight(c)
PastedAt(c) == IF IsLeft(c) THEN <<c.panel_width, 0>> ELSE <<0, 0>>
PanelArea(c) ==
    IF IsLeft(c) THEN <<0, 0, c.panel_width, NewHeight(c)>>
    ELSE <<0, c.height, NewWidth(c), NewHeight(c)>>

\* element_offsets.get(name, (0, 0))
OffsetOf(c, name) ==
    IF name \in DOMAIN c.element_offsets THEN c.element_offsets[name] ELSE <<0, 0>>

\* n text lines drawn from y down, all shifted by the offset off
DrawLines(name, n, x, y, lh, off) ==
    [k \in 1..n |-> [name |-> name, x |-> x + off[1], y |-> y + (k - 1) * lh + off[2],
                     height |-> lh]]

TextNames == <<"text_1", "text_2", "text_3">>

\* the drawing pass over the fixed texts from index k on, text_y being the
\* running position
RECURSIVE DrawFixedTexts(_, _, _, _)
DrawFixedTexts(c, k, x, text_y) ==
    IF k > Len(c.fixed_texts) THEN [drawn |-> <<>>, text_y |-> text_y]
    ELSE LET n == IF c.fixed_texts[k] # <<>>
                  THEN Len(WrapText(c.fixed_texts[k], c.panel_width - 20)) ELSE 0
             rest == DrawFixedTexts(c, k + 1, x, text_y + n * LineHeightOf(c))
         IN  [drawn |-> DrawLines(TextNames[k], n, x, text_y, LineHeightOf(c),
                                  OffsetOf(c, TextNames[k])) \o rest.drawn,
              text_y |-> rest.text_y]

\* the drawing pass: every draw.text call and the stamp paste, in order
Drawn(c) ==
    LET lh == LineHeightOf(c)
        x == PanelArea(c)[1] + 10
        y0 == PanelArea(c)[2] + 10
        inn == IF ShowInn(c) THEN DrawLines("inn", 1, x, y0, lh, OffsetOf(c, "inn")) ELSE <<>>
        y1 == y0 + Len(inn) * lh
        kpp == IF ShowKpp(c) THEN DrawLines("kpp", 1, x, y1, lh, OffsetOf(c, "kpp")) ELSE <<>>
        y2 == y1 + Len(kpp) * lh
        counts == LineCounts(c, c.panel_width - 20)
        sup == DrawLines("supplier", counts[1], x, y2, lh, <<0, 0>>)
        y3 == y2 + Len(sup) * lh
        link == DrawLines("hyperlink", counts[2], x, y3, lh, <<0, 0>>)
        y4 == y3 + Len(link) * lh + 10 + 15
        fixed == DrawFixedTexts(c, 1, x, y4)
        stamp == IF ShowStamp(c)
                 THEN << [name |-> "stamp",
                          x |-> x + OffsetOf(c, "stamp")[1],
                          y |-> fixed.text_y + 20 + OffsetOf(c, "stamp")[2],
                          height |-> FittedStampHeight(c, c.panel_width - 20)] >>
                 ELSE <<>>
    IN  inn \o kpp \o sup \o link \o fixed.drawn \o stamp

\* Image.new and Image.resize raise on a size that is not positive, and
\* process_image then returns (False, message) without an output
Succeeds(c) ==
    /\ NewWidth(c) > 0 /\ NewHeight(c) > 0
    /\ ShowStamp(c) =>
          /\ FittedStampWidth(c, c.panel_width - 20) > 0
          /\ FittedStampHeight(c, c.panel_width - 20) > 0

\* ImageProcessor.process_image: the geometry of the image it writes
ProcessImage(c) ==
    [ok |-> Succeeds(c),
     new_width |-> NewWidth(c),
     new_height |-> NewHeight(c),
     pasted_at |-> PastedAt(c),
     panel_area |-> PanelArea(c),
     sized_height |-> IF IsLeft(c) THEN RequiredHeight(c) ELSE PanelHeight(c),
     sized_lines |-> LineCounts(c, IF IsLeft(c) THEN c.panel_width - 20 ELSE c.width - 20),
     drawn_lines |-> LineCounts(c, c.panel_width - 20),
     drawn |-> Drawn(c)]

\* ------------------------------------------------------------------ state
VARIABLES
    \* main window
    image_files,        \* MainWindow._image_files, the sorted image paths
    excel_rows,         \* the sheet, from DATA_START_ROW on
    fixed_texts,        \* what _get_fixed_texts() returns
    format_radio,       \* the checked format radio button
    excel_data,         \* ExcelReader.data of MainWindow.excel_reader
    current_worker,     \* MainWindow.current_worker is not None
    checkpoint_manager, \* MainWindow.checkpoint_manager (Optional)
    checkpoint_file,    \* <output folder>/.checkpoint.json (Optional)
    skip_log,           \* images logged as "SKIP"
    element_offsets,    \* settings["element_offsets"], as _save_offsets stores it
    processor_settings, \* the dict _start_processing hands to ImageProcessor (Optional)
    \* the ProcessingWorker and its executor, one record (fields below)
    worker,
    \* output files written by process_image
    outputs,
    \* one call of ImageProcessor.process_image: its arguments and settings,
    \* and what it produced (Optional)
    proc_call,
    proc_result,
    \* one construction of a ProcessingWorker: the configured thread_count and
    \* os.cpu_count(), and the _thread_count it computed (Optional)
    pool_call,
    pool_size,
    \* a second CheckpointManager on the same output folder (its data,
    \* Optional), the last get_pending_files() result (Optional), and
    \* history: the data of the first manager at its last _save() (Optional)
    restored_manager,
    pending_files,
    saved_data

mwVars == <<image_files, excel_rows, fixed_texts, format_radio, excel_data,
            current_worker, checkpoint_manager, checkpoint_file, skip_log,
            element_offsets, processor_settings>>
procVars == <<proc_call, proc_result>>
poolVars == <<pool_call, pool_size>>
cpVars == <<restored_manager, pending_files, saved_data>>
vars == <<mwVars, worker, outputs, procVars, poolVars, cpVars>>

\* ProcessingWorker.__init__: the fields of a fresh worker.
\*   tasks, settings (settings["performance"]), thread_count,
\*   checkpoint_callback (is not None), is_paused_set (the Event _is_paused,
\*   set = not paused), is_cancelled, the four counters;
\*   pc: position of the thread executing run(); i: tasks submitted so far;
\*   futures: state of each task's future ("none" = not submitted);
\*   yielded: futures as_completed() has returned; cur: the future of the
\*   current iteration of the second loop; exc: an exception is propagating;
\*   signals: signals emitted, in order; checkpoint_calls: at each
\*   checkpoint_callback() call, _processed_count, the sum of the success and
\*   failed counters and the number of signals emitted so far;
\*   callback_raises: checkpoint_callback() raises;
\*   factory_raises: processor_factory() (or load_stamp) raises;
\*   history: submit_count, handled (executor.submit / _handle_result calls
\*   per task); since_pause (submissions and handled results since pause()
\*   was called, while the pause lasts); cancelled_in_wait (cancel() was
\*   called while the run thread was blocked in _is_paused.wait()).
NewWorker(taskList, perf, cpu, callback) ==
    [tasks |-> taskList,
     settings |-> perf,
     thread_count |-> ThreadCount(perf.thread_count, cpu),
     checkpoint_callback |-> callback,
     is_paused_set |-> TRUE,
     is_cancelled |-> FALSE,
     processed_count |-> 0,
     success_count |-> 0,
     failed_count |-> 0,
     skipped_count |-> 0,
     total_files |-> Len(taskList),
     pc |-> "queued",
     i |-> 0,
     futures |-> [t \in 1..Len(taskList) |-> "none"],
     yielded |-> {},
     cur |-> 0,
     exc |-> FALSE,
     signals |-> <<>>,
     checkpoint_calls |-> <<>>,
     factory_raises |-> FALSE,
     callback_raises |-> FALSE,
     submit_count |-> [t \in 1..Len(taskList) |-> 0],
     handled |-> [t \in 1..Len(taskList) |-> 0],
     since_pause |-> [submitted |-> 0, handled |-> 0],
     cancelled_in_wait |-> FALSE]

\* MainWindow.__init__: self.current_worker = None
NoWorker ==
    [NewWorker(<<>>, [thread_count |-> 0, batch_size |-> 50, auto_save_interval |-> 100],
               1, FALSE) EXCEPT !.pc = "none"]

TaskIds == 1..Len(worker.tasks)

\* Path(task.image_path).name; the model's paths are bare file names
FileName(t) == worker.tasks[t].image_path

Running == {t \in TaskIds : worker.futures[t] = "running"}
Pending == {t \in TaskIds : worker.futures[t] = "pending"}
Done == {t \in TaskIds : worker.futures[t] \in {"ok", "failed"}}

\* ----------------------------------------------------- ThreadPoolExecutor
\* a pool that starts a thread per work item
PoolUnbounded == TRUE

\* a pool thread is free to take the next work item
PoolHasIdleThread == Cardinality(Running) < worker.thread_count

\* the work queue is FIFO: the oldest pending item is taken first
NextPending == CHOOSE t \in Pending : \A u \in Pending : t <= u

\* a pool thread takes a work item and enters _process_single_file, which
\* calls processor.process_image
PoolStart ==
    /\ worker.pc \notin {"none", "queued"}
    /\ Pending # {}
    /\ PoolHasIdleThread
    /\ worker' = [worker EXCEPT !.futures[NextPending] = "running"]
    /\ UNCHANGED <<mwVars, outputs, procVars, poolVars, cpVars>>

\* process_image returns (True, "OK") after writing the output file, or
\* (False, message); _process_single_file turns either, and any exception,
\* into a ProcessingResult, so the future always completes
PoolFinish(t, ok) ==
    /\ worker.futures[t] = "running"
    /\ worker' = [worker EXCEPT !.futures[t] = IF ok THEN "ok" ELSE "failed"]
    /\ outputs' = IF ok THEN outputs \cup {worker.tasks[t].output_path} ELSE outputs
    /\ UNCHANGED <<mwVars, procVars, poolVars, cpVars>>

\* ------------------------------------------------- ProcessingWorker.run
Emit(log, sig) == Append(log, sig)

Statistics(w) ==
    [processed |-> w.processed_count, total |-> w.total_files,
     success |-> w.success_count, failed |-> w.failed_count,
     skipped |-> w.skipped_count,
     percent |-> Percent(w.processed_count, w.total_files)]

FinalStatistics(w) ==
    [processed |-> w.processed_count, total |-> w.total_files,
     success |-> w.success_count, failed |-> w.failed_count,
     skipped |-> w.skipped_count,
     percent |-> FinalPercent(w.processed_count, w.total_files)]

\* run(): started.emit(), processor_factory(), load_stamp, the executor is
\* created; an exception of the factory goes to the except clause, which
\* emits error("", ...)
RunStart ==
    /\ worker.pc = "queued"
    /\ worker' = IF worker.factory_raises
                 THEN [worker EXCEPT !.pc = "finally", !.exc = TRUE,
                                     !.signals = Emit(Emit(@, <<"started">>),
                                                      <<"error", <<>>>>)]
                 ELSE [worker EXCEPT !.pc = "submit_check",
                                     !.signals = Emit(@, <<"started">>)]
    /\ UNCHANGED <<mwVars, outputs, procVars, poolVars, cpVars>>

\* first loop, `if self._is_cancelled.is_set(): break`, and the end of the
\* task list
SubmitCheck ==
    /\ worker.pc = "submit_check"
    /\ worker' = [worker EXCEPT !.pc =
            IF worker.i >= Len(worker.tasks) \/ worker.is_cancelled
            THEN "as_completed" ELSE "submit_wait"]
    /\ UNCHANGED <<mwVars, outputs, procVars, poolVars, cpVars>>

\* a first loop that does not wait on the pause event
SubmitWaitNoGate ==
    /\ worker.pc = "submit_wait"
    /\ worker' = [worker EXCEPT !.pc = "submit"]
    /\ UNCHANGED <<mwVars, outputs, procVars, poolVars, cpVars>>

\* first loop, self._is_paused.wait()
SubmitWait ==
    /\ worker.pc = "submit_wait"
    /\ worker.is_paused_set
    /\ worker' = [worker EXCEPT !.pc = "submit"]
    /\ UNCHANGED <<mwVars, outputs, procVars, poolVars, cpVars>>

\* first loop, executor.submit(...); futures[future] = task
Submit ==
    /\ worker.pc = "submit"
    /\ worker' = [worker EXCEPT !.futures[worker.i + 1] = "pending",
                                !.submit_count[worker.i + 1] = @ + 1,
                                !.since_pause.submitted =
                                    IF worker.is_paused_set THEN 0 ELSE @ + 1,
                                !.i = @ + 1,
                                !.pc = "submit_check"]
    /\ UNCHANGED <<mwVars, outputs, procVars, poolVars, cpVars>>

\* a second loop over the futures that are already finished
FinishedOnly == Done

\* the futures dictionary: the futures submitted
Submitted == {t \in TaskIds : worker.futures[t] # "none"}

\* second loop, as_completed(futures): returns a finished future not yet
\* returned, blocks while none is finished, ends when all were returned
AsCompleted ==
    /\ worker.pc = "as_completed"
    /\ \/ /\ Submitted \subseteq worker.yielded
          /\ worker' = [worker EXCEPT !.pc = "shutdown"]
       \/ \E t \in Done \ worker.yielded :
            worker' = [worker EXCEPT !.yielded = @ \cup {t}, !.cur = t,
                                     !.pc = "collect_check"]
    /\ UNCHANGED <<mwVars, outputs, procVars, poolVars, cpVars>>

\* second loop, `if self._is_cancelled.is_set(): break`
CollectCheck ==
    /\ worker.pc = "collect_check"
    /\ worker' = [worker EXCEPT !.pc =
            IF worker.is_cancelled THEN "shutdown" ELSE "collect_wait"]
    /\ UNCHANGED <<mwVars, outputs, procVars, poolVars, cpVars>>

\* second loop, self._is_paused.wait()
CollectWait ==
    /\ worker.pc = "collect_wait"
    /\ worker.is_paused_set
    /\ worker' = [worker EXCEPT !.pc = "handle"]
    /\ UNCHANGED <<mwVars, outputs, procVars, poolVars, cpVars>>

\* ProcessingResult.message: "OK" from process_image, or the error text
ResultMessage(ok) == IF ok THEN "OK" ELSE "error text"

\* _handle_result without the else branch: a failure counts as a success too
HandleResultNoElse(w, t, ok) ==
    LET counted == [w EXCEPT !.processed_count = @ + 1,
                             !.success_count = @ + 1,
                             !.failed_count = IF ok THEN @ ELSE @ + 1,
                             !.handled[t] = @ + 1]
    IN  [counted EXCEPT !.signals =
            Emit(Emit(@, <<"file_processed", w.tasks[t].image_path, ok, ResultMessage(ok)>>),
                 <<"progress", counted.processed_count, counted.total_files, w.tasks[t].image_path>>)]

\* a _handle_result that reports progress before file_processed
HandleResultProgressFirst(w, t, ok) ==
    LET counted == [w EXCEPT !.processed_count = @ + 1,
                             !.success_count = IF ok THEN @ + 1 ELSE @,
                             !.failed_count = IF ok THEN @ ELSE @ + 1,
                             !.handled[t] = @ + 1]
    IN  [counted EXCEPT !.signals =
            Emit(Emit(@, <<"progress", counted.processed_count, counted.total_files,
                           w.tasks[t].image_path>>),
                 <<"file_processed", w.tasks[t].image_path, ok, ResultMessage(ok)>>)]

\* a _handle_result that reports a failed file through the error signal
HandleResultFailureAsError(w, t, ok) ==
    LET counted == [w EXCEPT !.processed_count = @ + 1,
                             !.success_count = IF ok THEN @ + 1 ELSE @,
                             !.failed_count = IF ok THEN @ ELSE @ + 1,
                             !.handled[t] = @ + 1]
    IN  [counted EXCEPT !.signals =
            Emit(Emit(@, IF ok THEN <<"file_processed", w.tasks[t].image_path, ok,
                                      ResultMessage(ok)>>
                               ELSE <<"error", w.tasks[t].image_path>>),
                 <<"progress", counted.processed_count, counted.total_files,
                   w.tasks[t].image_path>>)]

\* _handle_result: the counters under the lock, then file_processed,
\* progress and, every StatsEvery results, statistics
HandleResult(w, t, ok) ==
    LET counted == [w EXCEPT !.processed_count = @ + 1,
                             !.success_count = IF ok THEN @ + 1 ELSE @,
                             !.failed_count = IF ok THEN @ ELSE @ + 1,
                             !.handled[t] = @ + 1]
        emitted == [counted EXCEPT !.signals =
                        Emit(Emit(@, <<"file_processed", w.tasks[t].image_path, ok,
                                       ResultMessage(ok)>>),
                             <<"progress", counted.processed_count, counted.total_files,
                               w.tasks[t].image_path>>)]
    IN  IF emitted.processed_count % StatsEvery = 0
        THEN [emitted EXCEPT !.signals = Emit(@, <<"statistics", Statistics(emitted)>>)]
        ELSE emitted

\* an auto-save test that is true one result early
AutoSaveDueBeforeCount(n, k) == (n - 1) % k = 0

\* self._processed_count % self._auto_save_interval == 0, for k # 0
AutoSaveDue(n, k) == n % k = 0

\* the rest of one iteration of the second loop: future.result(),
\* _handle_result, the checkpoint auto-save and the garbage collection.
\* `processed % auto_save_interval` and `processed % batch_size` raise
\* ZeroDivisionError when the divisor is 0, and an exception of the
\* callback leaves the loop as well
Handle ==
    /\ worker.pc = "handle"
    /\ LET r == HandleResult(worker, worker.cur, worker.futures[worker.cur] = "ok")
           h == [r EXCEPT !.since_pause.handled =
                              IF worker.is_paused_set THEN 0 ELSE @ + 1]
           n == h.processed_count
           k == h.settings.auto_save_interval
           b == h.settings.batch_size
           due == k # 0 /\ AutoSaveDue(n, k) /\ h.checkpoint_callback
           saved == IF due
                    THEN [h EXCEPT !.checkpoint_calls =
                             Append(@, [processed |-> n,
                                        counted |-> h.success_count + h.failed_count,
                                        signals |-> Len(h.signals)])]
                    ELSE h
       IN  worker' = IF k = 0 THEN [h EXCEPT !.exc = TRUE, !.pc = "shutdown"]
                     ELSE IF due /\ h.callback_raises
                     THEN [saved EXCEPT !.exc = TRUE, !.pc = "shutdown"]
                     ELSE IF b = 0 THEN [saved EXCEPT !.exc = TRUE, !.pc = "shutdown"]
                     ELSE [saved EXCEPT !.pc = "as_completed"]
    /\ UNCHANGED <<mwVars, outputs, procVars, poolVars, cpVars>>

\* leaving the with block without waiting for the work items
ExecutorShutdownNoWait ==
    /\ worker.pc = "shutdown"
    /\ worker' = [worker EXCEPT !.pc = "finally",
                                !.signals = IF worker.exc THEN Emit(@, <<"error", <<>>>>) ELSE @]
    /\ UNCHANGED <<mwVars, outputs, procVars, poolVars, cpVars>>

\* leaving the with block: ThreadPoolExecutor.__exit__ is shutdown(wait=True),
\* which returns when every submitted work item has run; then the except
\* clause emits error("", ...) when an exception left the block
ExecutorShutdown ==
    /\ worker.pc = "shutdown"
    /\ Pending = {} /\ Running = {}
    /\ worker' = [worker EXCEPT !.pc = "finally",
                                !.signals = IF worker.exc THEN Emit(@, <<"error", <<>>>>) ELSE @]
    /\ UNCHANGED <<mwVars, outputs, procVars, poolVars, cpVars>>

\* a finally clause that emits finished before the final statistics
EmitFinalFinishedFirst ==
    /\ worker.pc = "finally"
    /\ worker' = [worker EXCEPT !.pc = "done",
                                !.signals = Emit(Emit(@, <<"finished">>),
                                                 <<"statistics", FinalStatistics(worker)>>)]
    /\ UNCHANGED <<mwVars, outputs, procVars, poolVars, cpVars>>

\* finally: _emit_final_statistics(); finished.emit()
EmitFinal ==
    /\ worker.pc = "finally"
    /\ worker' = [worker EXCEPT !.pc = "done",
                                !.signals = Emit(Emit(@, <<"statistics", FinalStatistics(worker)>>),
                                                 <<"finished">>)]
    /\ UNCHANGED <<mwVars, outputs, procVars, poolVars, cpVars>>

\* --------------------------------------------- pause / resume / cancel
\* the pause and cancel buttons are enabled from the started signal to the
\* finished signal
ButtonsEnabled == worker.pc \notin {"none", "queued", "done"}

\* ProcessingWorker.pause
Pause(w) ==
    [w EXCEPT !.is_paused_set = FALSE,
              !.since_pause = [submitted |-> 0, handled |-> 0]]

\* ProcessingWorker.resume
Resume(w) ==
    [w EXCEPT !.is_paused_set = TRUE,
              !.since_pause = [submitted |-> 0, handled |-> 0]]

\* ProcessingWorker.cancel
Cancel(w) ==
    [w EXCEPT !.is_cancelled = TRUE,
              !.is_paused_set = TRUE,
              !.since_pause = [submitted |-> 0, handled |-> 0],
              !.cancelled_in_wait =
                  @ \/ (w.pc \in {"submit_wait", "collect_wait"} /\ ~w.is_paused_set)]

\* ProcessingWorker.is_paused
IsPaused(w) == ~w.is_paused_set

\* MainWindow._toggle_pause
TogglePause ==
    /\ current_worker
    /\ ButtonsEnabled
    /\ worker' = IF IsPaused(worker) THEN Resume(worker) ELSE Pause(worker)
    /\ UNCHANGED <<mwVars, outputs, procVars, poolVars, cpVars>>

\* MainWindow._cancel_processing, answered Yes
CancelProcessing ==
    /\ current_worker
    /\ ButtonsEnabled
    /\ worker' = Cancel(worker)
    /\ UNCHANGED <<mwVars, outputs, procVars, poolVars, cpVars>>

\* ------------------------------------------------------------ MainWindow
\* an extension choice without the JPG branch
OutputExtNoJpg(fmt) ==
    IF fmt = "png" THEN <<".", "p", "n", "g">> ELSE <<".", "p", "d", "f">>

\* the extension _start_processing appends for the checked radio button
OutputExt(fmt) ==
    IF fmt = "png" THEN <<".", "p", "n", "g">>
    ELSE IF fmt = "jpg" THEN <<".", "j", "p", "g">>
    ELSE <<".", "p", "d", "f">>

\* no element has been moved: element_offsets is {}
NoOffsets == [n \in {} |-> <<0, 0>>]

\* _get_processor_settings: the dict built for the processor, as far as the
\* model reads it; it has no "element_offsets" key, and _start_processing
\* adds only "paths" and "performance"
GetProcessorSettings(fmt) ==
    [format |-> IF fmt = "png" THEN "png" ELSE IF fmt = "jpg" THEN "jpg" ELSE "pdf"]

\* str.lower() on the format names
Lower(str) ==
    IF str = "PNG" THEN "png" ELSE IF str = "JPG" THEN "jpg"
    ELSE IF str = "JPEG" THEN "jpeg" ELSE IF str = "PDF" THEN "pdf" ELSE str

\* process_image: the encoder that writes the result, chosen by
\* self.settings.get("format", "png").lower()
Encoder(settings) ==
    LET output_format == Lower(IF "format" \in DOMAIN settings THEN settings.format
                                                              ELSE "png")
    IN  IF output_format = "pdf" THEN "PDF"
        ELSE IF output_format \in {"jpg", "jpeg"} THEN "JPEG"
        ELSE "PNG"

\* process_image: self.settings.get("element_offsets", {})
ElementOffsetsOf(settings) ==
    IF "element_offsets" \in DOMAIN settings THEN settings.element_offsets ELSE NoOffsets

\* _start_processing: the task list, one task per image with spreadsheet data
RECURSIVE BuildTasks(_, _, _, _)
BuildTasks(files, data, texts, fmt) ==
    IF files = <<>> THEN <<>>
    ELSE LET found == GetDataForFile(data, Head(files))
             rest == BuildTasks(Tail(files), data, texts, fmt)
         IN  IF Falsy(found) THEN rest
             ELSE <<[image_path |-> Head(files),
                     output_path |-> Stem(Head(files)) \o OutputExt(fmt),
                     excel_data |-> found[1],
                     fixed_texts |-> texts]>> \o rest

\* _start_processing: the images logged as SKIP
SkippedFiles(files, data) ==
    {files[k] : k \in {m \in 1..Len(files) : Falsy(GetDataForFile(data, files[m]))}}

\* QSpinBox ranges of the performance group: thread_count 0..16, batch_size
\* from 10, auto_save_interval from 50
ThreadSpinValues == {0, 1}
BatchSizeSpin == 10
AutoSaveSpin == 50

\* InteractivePreviewView._on_item_moved, then offsetsChanged ->
\* MainWindow._on_offsets_changed -> _save_offsets: the offset of the moved
\* element is stored in the settings
OnItemMoved(name, dx, dy) ==
    /\ worker.pc = "none"
    /\ element_offsets' = [n \in DOMAIN element_offsets \cup {name} |->
                              IF n = name THEN <<dx, dy>> ELSE element_offsets[n]]
    /\ UNCHANGED <<image_files, excel_rows, fixed_texts, format_radio, excel_data,
                   current_worker, checkpoint_manager, checkpoint_file, skip_log,
                   processor_settings, worker, outputs, procVars, poolVars, cpVars>>

\* InteractivePreviewView.resetOffsets, then _save_offsets
ResetOffsets ==
    /\ worker.pc = "none"
    /\ element_offsets # NoOffsets
    /\ element_offsets' = NoOffsets
    /\ UNCHANGED <<image_files, excel_rows, fixed_texts, format_radio, excel_data,
                   current_worker, checkpoint_manager, checkpoint_file, skip_log,
                   processor_settings, worker, outputs, procVars, poolVars, cpVars>>

\* MainWindow._start_processing (inputs valid, the sheet loads and parses)
StartProcessing ==
    /\ worker.pc = "none"
    /\ image_files # <<>>
    /\ excel_data' = Parse(excel_rows)
    /\ skip_log' = SkippedFiles(image_files, excel_data')
    /\ LET built == BuildTasks(image_files, excel_data', fixed_texts, format_radio)
       IN  IF built = <<>>
           THEN UNCHANGED <<worker, current_worker, processor_settings>>
           ELSE /\ processor_settings' = Some(GetProcessorSettings(format_radio))
                /\ \E spin \in ThreadSpinValues, cpu \in 1..MaxCpu :
                     worker' = NewWorker(built,
                                  [thread_count |-> spin, batch_size |-> BatchSizeSpin,
                                   auto_save_interval |-> AutoSaveSpin],
                                  cpu, FALSE)
                /\ current_worker' = TRUE
    /\ UNCHANGED <<image_files, excel_rows, fixed_texts, format_radio,
                   checkpoint_manager, checkpoint_file, element_offsets, outputs,
                   procVars, poolVars, cpVars>>

\* ----------------------------------------------------- CheckpointManager
\* self.data is a dict: a function from its keys; {} is the empty function
EmptyData == [k \in {} |-> None]

\* dict.get(key, default)
Get(d, key, default) == IF key \in DOMAIN d THEN d[key] ELSE default

\* d with d[key] = value
SetKey(d, key, value) ==
    [k \in DOMAIN d \cup {key} |-> IF k = key THEN value ELSE d[k]]

\* datetime.now() as session id and as ISO text
Now == <<"t", "1">>

\* JSON values, as json.dump writes and json.load reads them
JsonNull == [t |-> "null"]
JsonString(str) == [t |-> "string", v |-> str]
JsonNumber(n) == [t |-> "number", v |-> n]
JsonArray(items) == [t |-> "array", v |-> items]
JsonObject(members) == [t |-> "object", v |-> members]

\* json.dump of one entry of self.data, by the Python type the key holds
DumpField(key, value) ==
    IF key \in {"all_files", "processed_files"}
    THEN JsonArray([k \in 1..Len(value) |-> JsonString(value[k])])
    ELSE IF key = "failed_files"
    THEN JsonArray([k \in 1..Len(value) |->
                      JsonObject([f \in DOMAIN value[k] |-> JsonString(value[k][f])])])
    ELSE IF key = "total_files" THEN JsonNumber(value)
    ELSE IF key = "paused_at" /\ value = None THEN JsonNull
    ELSE JsonString(value)

\* a json.dump that writes no failure entries
DumpDataWithoutFailures(data) ==
    JsonObject([k \in DOMAIN data |->
                  IF k = "failed_files" THEN JsonArray(<<>>) ELSE DumpField(k, data[k])])

\* _save: json.dump(self.data, f)
DumpData(data) == JsonObject([k \in DOMAIN data |-> DumpField(k, data[k])])

\* load_session: json.load(f)
RECURSIVE LoadValue(_)
LoadValue(json) ==
    IF json.t = "null" THEN None
    ELSE IF json.t = "array" THEN [k \in 1..Len(json.v) |-> LoadValue(json.v[k])]
    ELSE IF json.t = "object" THEN [f \in DOMAIN json.v |-> LoadValue(json.v[f])]
    ELSE json.v

\* create_session: the new self.data
NewSession(files, settings_hash) ==
    [session_id |-> Now, started_at |-> Now, paused_at |-> None,
     total_files |-> Len(files), all_files |-> files, processed_files |-> <<>>,
     failed_files |-> <<>>, settings_hash |-> settings_hash]

\* the file names of the failed_files entries
FailedNames(d) ==
    LET failed == Get(d, "failed_files", <<>>)
    IN  {failed[k].file : k \in 1..Len(failed)}

\* the list comprehension of get_pending_files over a list
RECURSIVE KeepPending(_, _)
KeepPending(files, done) ==
    IF files = <<>> THEN <<>>
    ELSE IF Head(files) \in done THEN KeepPending(Tail(files), done)
    ELSE <<Head(files)>> \o KeepPending(Tail(files), done)

\* get_pending_files with only the processed files left out
GetPendingFilesKeepsFailed(d) ==
    IF DOMAIN d = {} THEN <<>>
    ELSE LET processed == Get(d, "processed_files", <<>>)
         IN  KeepPending(Get(d, "all_files", <<>>),
                         {processed[k] : k \in 1..Len(processed)})

\* CheckpointManager.get_pending_files
GetPendingFiles(d) ==
    IF DOMAIN d = {} THEN <<>>
    ELSE LET processed == Get(d, "processed_files", <<>>)
         IN  KeepPending(Get(d, "all_files", <<>>),
                         {processed[k] : k \in 1..Len(processed)} \cup FailedNames(d))

\* the marks made so far
Marks(d) == Len(Get(d, "processed_files", <<>>)) + Len(Get(d, "failed_files", <<>>))

\* CheckpointManager.create_session, with its _save(); a session is created
\* in a folder that has no checkpoint yet
CreateSession(files, settings_hash) ==
    /\ checkpoint_manager # None
    /\ checkpoint_file = None
    /\ LET data == NewSession(files, settings_hash)
       IN  /\ checkpoint_manager' = Some(data)
           /\ checkpoint_file' = Some(DumpData(data))
           /\ saved_data' = Some(data)
    /\ pending_files' = None
    /\ UNCHANGED <<image_files, excel_rows, fixed_texts, format_radio, excel_data,
                   current_worker, skip_log, element_offsets, processor_settings,
                   worker, outputs, procVars, poolVars, restored_manager>>

\* CheckpointManager.mark_processed
MarkProcessed(filename) ==
    /\ checkpoint_manager # None
    /\ Marks(checkpoint_manager[1]) < MaxMarks
    /\ LET d == checkpoint_manager[1]
       IN  checkpoint_manager' =
               Some(SetKey(d, "processed_files",
                           Append(Get(d, "processed_files", <<>>), filename)))
    /\ pending_files' = None
    /\ UNCHANGED <<image_files, excel_rows, fixed_texts, format_radio, excel_data,
                   current_worker, checkpoint_file, skip_log, element_offsets,
                   processor_settings, worker, outputs, procVars, poolVars,
                   restored_manager, saved_data>>

\* CheckpointManager.mark_failed
MarkFailed(filename, error) ==
    /\ checkpoint_manager # None
    /\ Marks(checkpoint_manager[1]) < MaxMarks
    /\ LET d == checkpoint_manager[1]
       IN  checkpoint_manager' =
               Some(SetKey(d, "failed_files",
                           Append(Get(d, "failed_files", <<>>),
                                  [file |-> filename, error |-> error,
                                   timestamp |-> Now])))
    /\ pending_files' = None
    /\ UNCHANGED <<image_files, excel_rows, fixed_texts, format_radio, excel_data,
                   current_worker, checkpoint_file, skip_log, element_offsets,
                   processor_settings, worker, outputs, procVars, poolVars,
                   restored_manager, saved_data>>

\* CheckpointManager.save_progress, with its _save()
SaveProgress ==
    /\ checkpoint_manager # None
    /\ LET data == SetKey(checkpoint_manager[1], "paused_at", Now)
       IN  /\ checkpoint_manager' = Some(data)
           /\ checkpoint_file' = Some(DumpData(data))
           /\ saved_data' = Some(data)
    /\ pending_files' = None
    /\ UNCHANGED <<image_files, excel_rows, fixed_texts, format_radio, excel_data,
                   current_worker, skip_log, element_offsets, processor_settings,
                   worker, outputs, procVars, poolVars, restored_manager>>

\* a call of get_pending_files()
GetPendingFilesCall ==
    /\ checkpoint_manager # None
    /\ pending_files = None
    /\ pending_files' = Some(GetPendingFiles(checkpoint_manager[1]))
    /\ UNCHANGED <<mwVars, worker, outputs, procVars, poolVars, restored_manager,
                   saved_data>>

\* CheckpointManager(output_folder).load_session() by a new manager: its
\* data, and whether a session was returned
LoadSession ==
    /\ restored_manager' =
           IF checkpoint_file = None
           THEN Some([data |-> EmptyData, loaded |-> FALSE])
           ELSE Some([data |-> LoadValue(checkpoint_file[1]), loaded |-> TRUE])
    /\ restored_manager' # restored_manager
    /\ UNCHANGED <<mwVars, worker, outputs, procVars, poolVars, pending_files,
                   saved_data>>

\* ------------------------------------------------------------------ inputs
CandidateFiles ==
    << <<"1", "-", "1", ".", "p", "n", "g">>,
       <<"1", ".", "1", ".", "p", "n", "g">>,
       <<"2", ".", "j", "p", "g">>,
       <<"3", ".", "p", "n", "g">> >>

MaxFiles == 3          \* most image files in the source folder
MaxRows == 2           \* most sheet rows tried by StartSpec

\* get_image_files returns the sorted paths: the sublists of CandidateFiles
RECURSIVE SubLists(_)
SubLists(list) ==
    IF list = <<>> THEN {<<>>}
    ELSE LET rest == SubLists(Tail(list))
         IN  rest \cup {<<Head(list)>> \o r : r \in rest}

FileLists == {l \in SubLists(CandidateFiles) : Len(l) <= MaxFiles}

CellsA == [supplier |-> Some(<<"S">>), kpp |-> Some(<<"7">>), inn |-> Some(<<"5">>),
           hyperlink |-> None]
CellsB == [supplier |-> None, kpp |-> None, inn |-> None, hyperlink |-> None]

Row(position, cells) ==
    [position |-> position, supplier |-> cells.supplier, kpp |-> cells.kpp,
     inn |-> cells.inn, hyperlink |-> cells.hyperlink]

PositionCells ==
    {None, Some(<<" ">>), Some(<<"1", ".", "1">>), Some(<<" ", "1", "-", "1", " ">>),
     Some(<<"2">>), Some(<<"1", ".", "1", ".", "p", "n", "g">>)}

RowChoices == {Row(p, c) : p \in PositionCells, c \in {CellsA, CellsB}}

RECURSIVE SeqsUpTo(_, _)
SeqsUpTo(S, n) ==
    IF n = 0 THEN {<<>>}
    ELSE LET shorter == SeqsUpTo(S, n - 1)
         IN  shorter \cup {Append(q, x) : q \in shorter, x \in S}

Sheets ==
    { << Row(Some(<<"1", ".", "1">>), CellsA), Row(Some(<<" ", "2">>), CellsB),
         Row(Some(<<"3">>), CellsA) >>,
      << Row(Some(<<"1", "-", "1">>), CellsA), Row(None, CellsA),
         Row(Some(<<"2">>), CellsA) >> }

FixedTextChoices == { << <<"T", "1">> >> }

\* MainWindow.__init__ with the inputs the user has entered
InitMainWindow(fileLists, sheets) ==
    /\ image_files \in fileLists
    /\ excel_rows \in sheets
    /\ fixed_texts \in FixedTextChoices
    /\ format_radio \in {"png", "pdf"}
    /\ excel_data = [k \in {} |-> None]
    /\ checkpoint_manager = None
    /\ checkpoint_file = None
    /\ skip_log = {}
    /\ element_offsets = NoOffsets
    /\ processor_settings = None
    /\ outputs = {}

\* a main window nothing has been entered in
IdleMainWindow ==
    /\ image_files = <<>>
    /\ excel_rows = <<>>
    /\ fixed_texts = <<>>
    /\ format_radio = "pdf"
    /\ excel_data = [k \in {} |-> None]
    /\ checkpoint_file = None
    /\ skip_log = {}
    /\ element_offsets = NoOffsets
    /\ processor_settings = None
    /\ outputs = {}

\* no worker construction and no checkpoint manager is looked at on its own
NoPoolCall == pool_call = None /\ pool_size = None
NoCheckpointing == restored_manager = None /\ pending_files = None /\ saved_data = None

\* ------------------------------------------------------ specifications
PoolStep == PoolStart \/ \E t \in TaskIds, ok \in BOOLEAN : PoolFinish(t, ok)

RunStep ==
    \/ RunStart
    \/ SubmitCheck
    \/ SubmitWait
    \/ Submit
    \/ AsCompleted
    \/ CollectCheck
    \/ CollectWait
    \/ Handle
    \/ ExecutorShutdown
    \/ EmitFinal

GuiStep == TogglePause \/ CancelProcessing

\* the main window from start-up to the end of one batch
Init ==
    /\ InitMainWindow(FileLists, Sheets)
    /\ current_worker = FALSE
    /\ worker = NoWorker
    /\ proc_call = None /\ proc_result = None
    /\ NoPoolCall /\ NoCheckpointing

Next == StartProcessing \/ RunStep \/ PoolStep \/ GuiStep

Spec == Init /\ [][Next]_vars

\* the task list of _start_processing over many sheets
StartInit ==
    /\ InitMainWindow(FileLists, SeqsUpTo(RowChoices, MaxRows))
    /\ current_worker = FALSE
    /\ worker = NoWorker
    /\ proc_call = None /\ proc_result = None
    /\ NoPoolCall /\ NoCheckpointing

StartNext == StartProcessing

StartSpec == StartInit /\ [][StartNext]_vars

\* the user moves elements in the interactive preview, picks a format and
\* starts the batch
MovableNames == {"inn", "supplier_value", "stamp"}
MoveChoices == {<<5, 7>>, <<0, -3>>}

PreviewInit ==
    /\ image_files \in FileLists
    /\ excel_rows \in Sheets
    /\ fixed_texts \in FixedTextChoices
    /\ format_radio \in {"png", "jpg", "pdf"}
    /\ excel_data = [k \in {} |-> None]
    /\ current_worker = FALSE
    /\ checkpoint_manager = None
    /\ checkpoint_file = None
    /\ skip_log = {}
    /\ element_offsets = NoOffsets
    /\ processor_settings = None
    /\ worker = NoWorker
    /\ outputs = {}
    /\ proc_call = None /\ proc_result = None
    /\ NoPoolCall /\ NoCheckpointing

PreviewNext ==
    \/ \E name \in MovableNames, d \in MoveChoices : OnItemMoved(name, d[1], d[2])
    \/ ResetOffsets
    \/ StartProcessing

PreviewSpec == PreviewInit /\ [][PreviewNext]_vars

\* a ProcessingWorker constructed with any settings and started on the
\* thread pool, its owner calling pause / resume / cancel
Digits == <<"1", "2", "3", "4", "5", "6", "7", "8", "9">>
AnyTask(n) ==
    [image_path |-> <<"f", Digits[n], ".", "j", "p", "g">>,
     output_path |-> <<"f", Digits[n], ".", "p", "n", "g">>,
     excel_data |-> RowData(CellsA),
     fixed_texts |-> <<>>]

PerfChoices ==
    [thread_count : {0, 1}, batch_size : {0, 50}, auto_save_interval : {0, 1, 2}]

WorkerInit ==
    /\ IdleMainWindow
    /\ checkpoint_manager = None
    /\ current_worker = TRUE
    /\ proc_call = None /\ proc_result = None
    /\ NoPoolCall /\ NoCheckpointing
    /\ \E n \in 0..MaxTasks, perf \in PerfChoices, cpu \in 1..MaxCpu, cb \in BOOLEAN,
          raises \in BOOLEAN, cb_raises \in BOOLEAN :
          \* without a callback the interval matters only when it is zero
          \* (the worker of the main window, which has none, runs in Spec)
          /\ cb \/ perf.auto_save_interval = 0
          \* only a callback that is called can raise
          /\ cb_raises => (cb /\ ~raises /\ perf.auto_save_interval # 0
                             /\ perf.batch_size # 0)
          /\ worker = [NewWorker([k \in 1..n |-> AnyTask(k)], perf, cpu, cb)
                       EXCEPT !.factory_raises = raises,
                              !.callback_raises = cb_raises]

WorkerNext == RunStep \/ PoolStep \/ GuiStep

WorkerSpec == WorkerInit /\ [][WorkerNext]_vars

\* one process_image call on any image, texts, stamp and settings
MaxWords == 5          \* words of the longest text tried

Word == 60
ShortText == << <<Word>> >>
LongText == << [k \in 1..MaxWords |-> Word] >>
TwoParagraphs == << <<Word, Word>>, <<>>, <<Word>> >>

NoFields == [inn |-> FALSE, kpp |-> FALSE, supplier |-> FALSE, hyperlink |-> FALSE]
DefaultFields == [inn |-> TRUE, kpp |-> TRUE, supplier |-> TRUE, hyperlink |-> FALSE]
AllFields == [inn |-> TRUE, kpp |-> TRUE, supplier |-> TRUE, hyperlink |-> TRUE]

ExcelCases ==
    { [fields |-> NoFields,
       data |-> [inn |-> ShortText, kpp |-> ShortText, supplier |-> LongText,
                 hyperlink |-> ShortText]],
      [fields |-> DefaultFields,
       data |-> [inn |-> ShortText, kpp |-> <<>>, supplier |-> ShortText,
                 hyperlink |-> LongText]],
      [fields |-> AllFields,
       data |-> [inn |-> ShortText, kpp |-> ShortText, supplier |-> LongText,
                 hyperlink |-> << <<200>> >>]] }

FixedTextCases == { <<>>, <<ShortText, <<>>, TwoParagraphs>>, <<LongText, LongText>> }

StampCases == { None, Some([width |-> 60, height |-> 40]),
                Some([width |-> 100, height |-> 1000]),
                Some([width |-> 100, height |-> 3000]) }

OffsetCases ==
    { [n \in {} |-> <<0, 0>>],
      [n \in {"inn", "text_1", "stamp"} |->
          IF n = "inn" THEN <<5, 7>> ELSE IF n = "text_1" THEN <<3, -4>> ELSE <<0, 30>>] }

ProcCalls ==
    { [position |-> p, width |-> w, height |-> h, panel_width |-> pw, font_size |-> 12,
       fields |-> e.fields, excel_data |-> e.data, fixed_texts |-> ft,
       stamp |-> st, stamp_enabled |-> TRUE, stamp_scale |-> [num |-> 3, den |-> 2],
       element_offsets |-> off] :
      p \in {"left", "bottom"}, w \in {10, 120, 400}, h \in {60, 300},
      pw \in {100, 300}, e \in ExcelCases, ft \in FixedTextCases, st \in StampCases,
      off \in OffsetCases }

ProcInit ==
    /\ IdleMainWindow
    /\ checkpoint_manager = None
    /\ current_worker = FALSE
    /\ worker = NoWorker
    /\ proc_call \in {Some(c) : c \in ProcCalls}
    /\ proc_result = None
    /\ NoPoolCall /\ NoCheckpointing

\* processor.process_image(image_path, excel_data, fixed_texts, output_path)
ProcessImageCall ==
    /\ proc_call # None
    /\ proc_result = None
    /\ proc_result' = Some(ProcessImage(proc_call[1]))
    /\ UNCHANGED <<mwVars, worker, outputs, proc_call, poolVars, cpVars>>

ProcNext == ProcessImageCall

ProcSpec == ProcInit /\ [][ProcNext]_vars

\* ProcessingWorker.__init__ on its own: any stored thread_count on any machine
ConfiguredCounts == -1..MaxThreads

PoolSizeInit ==
    /\ IdleMainWindow
    /\ checkpoint_manager = None
    /\ current_worker = FALSE
    /\ worker = NoWorker
    /\ proc_call = None /\ proc_result = None
    /\ pool_call \in {Some([configured |-> c, cpu |-> n]) : c \in ConfiguredCounts,
                                                             n \in 1..MaxCores}
    /\ pool_size = None
    /\ NoCheckpointing

\* self._thread_count after ProcessingWorker.__init__
ConstructWorker ==
    /\ pool_call # None
    /\ pool_size = None
    /\ pool_size' = Some(ThreadCount(pool_call[1].configured, pool_call[1].cpu))
    /\ UNCHANGED <<mwVars, worker, outputs, procVars, pool_call, cpVars>>

PoolSizeNext == ConstructWorker

PoolSizeSpec == PoolSizeInit /\ [][PoolSizeNext]_vars

\* a CheckpointManager used through its methods, and a second manager
\* loading what the first one saved
SessionNames == {<<"a">>, <<"b">>}
MarkNames == {<<"a">>, <<"b">>}

CheckpointInit ==
    /\ IdleMainWindow
    /\ current_worker = FALSE
    /\ checkpoint_manager = Some(EmptyData)
    /\ worker = NoWorker
    /\ proc_call = None /\ proc_result = None
    /\ NoPoolCall /\ NoCheckpointing

CheckpointNext ==
    \/ \E files \in SeqsUpTo(SessionNames, MaxSession) : CreateSession(files, <<"h">>)
    \/ \E f \in MarkNames : MarkProcessed(f)
    \/ \E f \in MarkNames : MarkFailed(f, <<"e">>)
    \/ SaveProgress
    \/ GetPendingFilesCall
    \/ LoadSession

CheckpointSpec == CheckpointInit /\ [][CheckpointNext]_vars

\* the same worker when the run thread and the pool threads keep running:
\* every task handed to the pool terminates and the run thread takes each
\* step it is not blocked in; the GUI thread is free to stop calling
FairWorkerSpec == WorkerSpec /\ WF_vars(RunStep) /\ WF_vars(PoolStep)

\* ------------------------------------------------------------------ claims
Range(seq) == {seq[k] : k \in 1..Len(seq)}

\* _start_processing has run
BatchRequested == worker.pc # "none" \/ skip_log # {}

\* rows parse() read whose normalized position is the stem of file f
RowsFor(f) ==
    {r \in 1..ParsedLen(excel_rows) :
        ReplaceDots(Strip(excel_rows[r].position[1])) = Stem(f)}

LastOf(S) == CHOOSE r \in S : \A q \in S : q <= r

TasksFor(f) == {t \in TaskIds : worker.tasks[t].image_path = f}

\* C1: once a batch was started from the main window, an image file has a
\* task if and only if a parsed row's normalized position equals the file's
\* stem; it then has exactly one task, carrying that row's data (the last
\* such row's when several rows share the position), and an image without
\* such a row has no task and no output file.
C1_TaskIffRow ==
    BatchRequested =>
        \A f \in Range(image_files) :
            /\ (TasksFor(f) # {}) <=> (RowsFor(f) # {})
            /\ Cardinality(TasksFor(f)) <= 1
            /\ \A t \in TasksFor(f) :
                   worker.tasks[t].excel_data = RowData(excel_rows[LastOf(RowsFor(f))])
            /\ RowsFor(f) = {} =>
                   /\ f \in skip_log
                   /\ Stem(f) \o OutputExt(format_radio) \notin outputs

\* a batch whose sheet has a dotted position, a matching image and an image
\* without a row
C1_Witness ==
    /\ worker.pc = "queued"
    /\ \E f \in Range(image_files) : RowsFor(f) = {}
    /\ \E f \in Range(image_files) :
          \E r \in RowsFor(f) : "." \in Range(excel_rows[r].position[1])

\* C2: once cancel() was called the run finishes (finished is emitted).
C2_CancelLeadsToFinished == worker.is_cancelled ~> (worker.pc = "done")

\* C3: while the worker stays paused no pool thread begins process_image.
C3_PausedStartsNothing ==
    [][(IsPaused(worker) /\ IsPaused(worker')) =>
          \A t \in TaskIds :
              worker.futures[t] # "running" => worker'.futures[t] # "running"]_vars

\* C4: after cancel() no task that had not started is processed.
C4_CancelledStartsNothing ==
    [][worker.is_cancelled =>
          \A t \in TaskIds :
              worker.futures[t] \in {"none", "pending"} =>
                  worker'.futures[t] \in {"none", "pending"}]_vars

\* C5: in a batch started from the main window every file whose result was
\* handled is recorded in the CheckpointManager, as processed or as failed.
C5_HandledIsRecorded ==
    \A t \in TaskIds :
        worker.handled[t] > 0 =>
            /\ checkpoint_manager # None
            /\ \/ FileName(t) \in Range(checkpoint_manager[1].processed_files)
               \/ \E e \in Range(checkpoint_manager[1].failed_files) : e.file = FileName(t)

\* C6: the tasks inside process_image never outnumber the pool size, the
\* pool size is the configured thread_count when that is positive, and the
\* pool size never changes.
C6_BoundedConcurrency ==
    /\ [](/\ Cardinality(Running) <= worker.thread_count
          /\ worker.settings.thread_count > 0 =>
                 worker.thread_count = worker.settings.thread_count)
    /\ [][worker'.thread_count = worker.thread_count]_vars

\* the pool is saturated while a further task waits in the queue
C6_Witness ==
    /\ Cardinality(Running) = worker.thread_count
    /\ Pending # {}

FileProcessedCount(t) ==
    Cardinality({k \in 1..Len(worker.signals) :
        /\ worker.signals[k][1] = "file_processed"
        /\ worker.signals[k][2] = FileName(t)})

\* C7: a run that finishes without cancel() and without a critical exception
\* has submitted every task once, handled every result once with one
\* file_processed signal each, counted all files, and reports percent = 100.
C7_CompleteRun ==
    (worker.pc = "done" /\ ~worker.is_cancelled /\ ~worker.exc) =>
        /\ \A t \in TaskIds :
              /\ worker.submit_count[t] = 1
              /\ worker.handled[t] = 1
              /\ FileProcessedCount(t) = 1
        /\ worker.processed_count = worker.total_files
        /\ worker.signals[Len(worker.signals) - 1][1] = "statistics"
        /\ worker.signals[Len(worker.signals) - 1][2].percent = 100

\* a finished run of several tasks, one of which failed
C7_Witness ==
    /\ worker.pc = "done" /\ ~worker.is_cancelled /\ ~worker.exc
    /\ worker.total_files >= 2
    /\ worker.failed_count >= 1

StatisticsEmitted ==
    {worker.signals[k][2] : k \in {m \in 1..Len(worker.signals) :
                                      worker.signals[m][1] = "statistics"}}

Produced == proc_result # None /\ proc_result[1].ok

\* C9: the output keeps the source image whole beside the panel: left gives
\* width + panel_width by max(height, required_height + 20) with the source
\* at (panel_width, 0); bottom gives width by height + panel_height with
\* panel_height >= 65 and the source at (0, 0); the output is never smaller
\* than the source in either dimension.
C9_OutputKeepsOriginal ==
    Produced =>
        LET c == proc_call[1]
            r == proc_result[1]
        IN  /\ c.position = "left" =>
                  /\ r.new_width = c.width + c.panel_width
                  /\ r.new_height = Max(c.height, r.sized_height + 20)
                  /\ r.pasted_at = <<c.panel_width, 0>>
            /\ c.position # "left" =>
                  /\ r.new_width = c.width
                  /\ r.new_height = c.height + r.sized_height
                  /\ r.sized_height >= 65
                  /\ r.pasted_at = <<0, 0>>
            /\ r.new_width >= c.width
            /\ r.new_height >= c.height

AllOffsetsZero(c) == \A n \in DOMAIN c.element_offsets : c.element_offsets[n] = <<0, 0>>

\* C10: with all offsets zero, for both panel positions, every drawn text
\* line and the stamp end at or above the panel bottom (y + height <= panel
\* bottom).
C10_ContentInsidePanel ==
    (Produced /\ AllOffsetsZero(proc_call[1])) =>
        LET r == proc_result[1]
        IN  \A k \in 1..Len(r.drawn) : r.drawn[k].y + r.drawn[k].height <= r.panel_area[4]

\* C11: an element the user moved in the interactive preview is drawn by the
\* batch started afterwards at its base position shifted by the stored
\* offset: the offset process_image applies to the element is the stored one.
C11_OffsetsReachBatch ==
    processor_settings # None =>
        \A n \in DOMAIN element_offsets :
            OffsetOf([element_offsets |-> ElementOffsetsOf(processor_settings[1])], n)
                = element_offsets[n]

InOrder(list, keep) ==
    [j \in 1..Cardinality(keep) |->
        list[CHOOSE k \in keep : Cardinality({m \in keep : m < k}) = j - 1]]

\* C13: get_pending_files returns exactly the entries of all_files that are
\* neither in processed_files nor the file of a failed_files entry, in the
\* order of all_files; all of all_files right after create_session; and the
\* empty list when the manager has no session data.
C13_PendingFiles ==
    pending_files # None =>
        LET d == checkpoint_manager[1]
            all == Get(d, "all_files", <<>>)
            processed == Get(d, "processed_files", <<>>)
            failed == Get(d, "failed_files", <<>>)
            keep == {k \in 1..Len(all) :
                        /\ \A p \in 1..Len(processed) : processed[p] # all[k]
                        /\ \A q \in 1..Len(failed) : failed[q].file # all[k]}
        IN  /\ pending_files[1] = InOrder(all, keep)
            /\ (processed = <<>> /\ failed = <<>>) => pending_files[1] = all
            /\ d = EmptyData => pending_files[1] = <<>>

C13_Witness ==
    /\ pending_files # None
    /\ Len(pending_files[1]) = 1
    /\ Len(Get(checkpoint_manager[1], "all_files", <<>>)) = 2
    /\ Get(checkpoint_manager[1], "processed_files", <<>>) = <<>>
    /\ Len(Get(checkpoint_manager[1], "failed_files", <<>>)) = 1

SuffixOf(name) ==
    IF LastDot(name) <= 1 THEN <<>> ELSE SubSeq(name, LastDot(name), Len(name))

\* the file format an extension stands for
FormatOfExtension(ext) ==
    IF ext = <<".", "p", "n", "g">> THEN "PNG"
    ELSE IF ext \in {<<".", "j", "p", "g">>, <<".", "j", "p", "e", "g">>} THEN "JPEG"
    ELSE IF ext = <<".", "p", "d", "f">> THEN "PDF"
    ELSE "other"

\* C15: process_image encodes PNG for "png", JPEG for "jpg" / "jpeg" and PDF
\* for "pdf", and whichever format radio button is checked, the extension of
\* every task's output path stands for the format the processor's settings
\* make it encode.
C15_ExtensionMatchesFormat ==
    /\ Encoder([format |-> "png"]) = "PNG"
    /\ Encoder([format |-> "jpg"]) = "JPEG"
    /\ Encoder([format |-> "jpeg"]) = "JPEG"
    /\ Encoder([format |-> "pdf"]) = "PDF"
    /\ processor_settings # None =>
           \A t \in TaskIds :
               FormatOfExtension(SuffixOf(worker.tasks[t].output_path))
                   = Encoder(processor_settings[1])

C15_Witness ==
    /\ processor_settings # None
    /\ format_radio = "jpg"
    /\ Len(worker.tasks) = 2
    /\ \E t \in TaskIds : Len(Stem(worker.tasks[t].output_path)) = 3

\* the positions of the signals of one kind in the log
SignalsOf(kind) == {k \in 1..Len(worker.signals) : worker.signals[k][1] = kind}

\* C16: on every path of run() started is emitted once and before every
\* other signal; the final statistics are emitted once, after the last
\* file_processed and directly before finished; finished is emitted once and
\* is the last signal.
C16_SignalOrder ==
    LET log == worker.signals
        n == Len(log)
    IN  /\ n > 0 => log[1] = <<"started">>
        /\ Cardinality(SignalsOf("started")) <= 1
        /\ Cardinality(SignalsOf("finished")) <= 1
        /\ \A k \in SignalsOf("finished") : k = n
        /\ worker.pc = "done" <=> SignalsOf("finished") # {}
        /\ worker.pc = "done" =>
               /\ SignalsOf("started") = {1}
               /\ log[n - 1] = <<"statistics", FinalStatistics(worker)>>
               /\ \A k \in SignalsOf("file_processed") \cup SignalsOf("progress")
                                \cup SignalsOf("error") : k < n - 1
               /\ Cardinality(SignalsOf("statistics"))
                      = 1 + worker.processed_count \div StatsEvery

C16_Witness ==
    /\ worker.pc = "done"
    /\ worker.exc
    /\ worker.is_cancelled
    /\ SignalsOf("file_processed") # {}
    /\ SignalsOf("error") # {}

\* C17: while a pause lasts (from pause() to the next resume() or cancel())
\* the run thread submits at most one further task and handles at most one
\* further result, and after that one it stays blocked in the wait.
C17_PauseGate ==
    IsPaused(worker) =>
        /\ worker.since_pause.submitted + worker.since_pause.handled <= 1
        /\ (worker.since_pause.submitted + worker.since_pause.handled = 1)
               => worker.pc \notin {"submit", "handle"}

C17_Witness ==
    /\ IsPaused(worker)
    /\ worker.since_pause.handled = 1
    /\ worker.pc = "collect_wait"
    /\ Done \ worker.yielded # {}

\* the file_processed and progress signals of a log
Reported(log) ==
    SelectSeq(log, LAMBDA sig : sig[1] \in {"file_processed", "progress"})

\* C18: after a cancel() called while the run thread was blocked in the
\* pause wait, no task is submitted, no result is handled, no file_processed
\* or progress signal is emitted and the counters stay as they are.
C18_CancelInWaitStopsAtOnce ==
    [][worker.cancelled_in_wait =>
          /\ worker'.i = worker.i
          /\ worker'.handled = worker.handled
          /\ worker'.processed_count = worker.processed_count
          /\ worker'.success_count = worker.success_count
          /\ worker'.failed_count = worker.failed_count
          /\ Reported(worker'.signals) = Reported(worker.signals)]_vars

\* C19: the progress signals of a run carry current = 1, 2, 3, ... without
\* repeat or gap and total = the number of tasks, and each follows directly
\* the file_processed signal of the same file name.
C19_ProgressSequence ==
    \A k \in SignalsOf("progress") :
        /\ worker.signals[k][2] = Cardinality({m \in SignalsOf("progress") : m <= k})
        /\ worker.signals[k][3] = Len(worker.tasks)
        /\ k > 1
        /\ worker.signals[k - 1][1] = "file_processed"
        /\ worker.signals[k - 1][2] = worker.signals[k][4]

C19_Witness ==
    /\ Cardinality(SignalsOf("progress")) = 3
    /\ worker.failed_count = 1
    /\ worker.pc = "done"

\* C20: handling the result of a task that failed adds one to failed_count
\* and nothing to success_count, emits file_processed(filename, False,
\* message) and no error signal, and the loop goes on: without cancel() and
\* without a critical exception every task is handled and no error signal is
\* emitted at all.
C20_FailureContained ==
    /\ [][(worker.pc = "handle" /\ worker'.pc # "handle"
              /\ worker.futures[worker.cur] = "failed") =>
             LET new == SubSeq(worker'.signals, Len(worker.signals) + 1,
                               Len(worker'.signals))
             IN  /\ worker'.failed_count = worker.failed_count + 1
                 /\ worker'.success_count = worker.success_count
                 /\ Len(new) >= 1
                 /\ new[1] = <<"file_processed", FileName(worker.cur), FALSE,
                               ResultMessage(FALSE)>>
                 /\ \A k \in 1..Len(new) : new[k][1] # "error"
                 /\ ~worker'.exc => worker'.pc = "as_completed"]_vars
    /\ [](~worker.exc => SignalsOf("error") = {})
    /\ []((worker.pc = "done" /\ ~worker.exc /\ ~worker.is_cancelled) =>
             \A t \in TaskIds : worker.handled[t] = 1)

C20_Witness ==
    /\ worker.pc = "done"
    /\ ~worker.exc
    /\ ~worker.is_cancelled
    /\ worker.failed_count = 1
    /\ worker.success_count = 2
    /\ worker.futures[1] = "failed"

\* the results handled so far
HandledResults == {t \in TaskIds : worker.handled[t] > 0}

\* C21: when processor_factory, the checkpoint callback or a step of the
\* loops raises (a zero batch_size or auto_save_interval included), run()
\* still ends: one error signal with an empty file name is emitted, every
\* submitted task has finished in the pool, the final statistics and finished
\* are emitted, and the counters are those of the results handled before the
\* exception (no result is handled after it, and the run thread is past
\* both loops and their pause waits).
C21_ExceptionContained ==
    /\ []((worker.pc = "done" /\ worker.exc) =>
             /\ \A k \in SignalsOf("error") : worker.signals[k] = <<"error", <<>>>>
             /\ Cardinality(SignalsOf("error")) = 1
             /\ Pending = {} /\ Running = {}
             /\ worker.signals[Len(worker.signals)] = <<"finished">>
             /\ worker.signals[Len(worker.signals) - 1]
                    = <<"statistics", FinalStatistics(worker)>>
             /\ worker.processed_count = Cardinality(HandledResults)
             /\ worker.success_count
                    = Cardinality({t \in HandledResults : worker.futures[t] = "ok"})
             /\ worker.failed_count
                    = Cardinality({t \in HandledResults : worker.futures[t] = "failed"}))
    /\ [](worker.exc => worker.pc \in {"shutdown", "finally", "done"})
    /\ [][worker.exc =>
             /\ worker'.exc
             /\ worker'.handled = worker.handled
             /\ worker'.i = worker.i
             /\ worker'.processed_count = worker.processed_count
             /\ worker'.success_count = worker.success_count
             /\ worker'.failed_count = worker.failed_count]_vars

C21_Witness ==
    /\ worker.pc = "done"
    /\ worker.exc
    /\ worker.callback_raises
    /\ worker.processed_count = 2
    /\ Len(worker.tasks) = 3
    /\ \A t \in TaskIds : worker.futures[t] \in {"ok", "failed"}

\* C22: with a checkpoint callback and auto_save_interval = k >= 1 the
\* callback has been called once for each multiple of k among the results
\* handled so far and for no other result, each call made after the counters
\* and the file_processed and progress signals of that result, and none
\* before the first result.
C22_AutoSaveCadence ==
    (worker.checkpoint_callback /\ worker.settings.auto_save_interval >= 1) =>
        LET k == worker.settings.auto_save_interval
            calls == worker.checkpoint_calls
        IN  /\ Len(calls) = worker.processed_count \div k
            /\ \A j \in 1..Len(calls) :
                   /\ calls[j].processed = j * k
                   /\ calls[j].processed >= 1
                   /\ calls[j].counted = j * k
                   /\ \E m \in 2..calls[j].signals :
                          /\ worker.signals[m][1] = "progress"
                          /\ worker.signals[m][2] = j * k
                          /\ worker.signals[m - 1][1] = "file_processed"

C22_Witness ==
    /\ worker.checkpoint_callback
    /\ worker.settings.auto_save_interval = 2
    /\ worker.processed_count = 3
    /\ Len(worker.checkpoint_calls) = 1
    /\ worker.pc = "done"

====
